---- MODULE Spec2Model ----
(***************************************************************************)
(* Model of phenoscore/hpo_phenotype/calc_hpo_sim.py : class SimScorer.    *)
(*                                                                         *)
(* State: the three attributes the constructor sets (hpo_network,          *)
(* name_to_id_and_reverse, scorer) and the caller's position: idle, or     *)
(* just returned from one method with its arguments and its outcome.       *)
(*                                                                         *)
(* Numbers.  Pairwise scores are naturals counted in units of 0.5 (the     *)
(* stub scorer's 1.0 is 2, its 0.5 is 1).  A float that results from a     *)
(* mean is an exact fraction in lowest terms, or NaN (numpy's mean of an   *)
(* empty array): rounding of the float sum is not modelled.                *)
(***************************************************************************)
EXTENDS Integers, Sequences, FiniteSets

VARIABLES hpo_network, name_to_id_and_reverse, scorer, pc, call

vars == <<hpo_network, name_to_id_and_reverse, scorer, pc, call>>

(***************************************************************************)
(* Bounds of the model.                                                    *)
(***************************************************************************)
\* longest first term list handed to calc_similarity, longest list handed to get_graph
MaxLen == 3
\* longest second term list handed to calc_similarity (besides the first list itself)
MaxLenB == 1
\* longest term list handed to filter_hpo_df, alone or as a row
MaxCohortLen == 2
\* most rows of an array or table handed to filter_hpo_df and calc_full_sim_mat
MaxCohort == 2
\* size of the similarity matrix handed to calc_sim_scores
MatSize == 3

(***************************************************************************)
(* Small helpers.                                                          *)
(***************************************************************************)
Range(s) == {s[i] : i \in DOMAIN s}

\* sequences over S of length 0..n
SeqsUpTo(S, n) == UNION {[1..k -> S] : k \in 0..n}

RECURSIVE SumSeq(_)
SumSeq(s) == IF s = <<>> THEN 0 ELSE s[1] + SumSeq(Tail(s))

RECURSIVE GCD(_, _)
GCD(a, b) == IF b = 0 THEN a ELSE GCD(b, a % b)

\* a float value: the fraction num/den in lowest terms, or NaN
Frac(n, d) == LET g == GCD(n, d) IN [nan |-> FALSE, num |-> n \div g, den |-> d \div g]
NaN == [nan |-> TRUE, num |-> 0, den |-> 1]
Zero == Frac(0, 1)
FracLeq(x, y) == ~x.nan /\ ~y.nan /\ x.num * y.den <= y.num * x.den

\* dict[key] = value on a Python dict
DictSet(d, k, v) == [x \in (DOMAIN d) \cup {k} |-> IF x = k THEN v ELSE d[x]]

(***************************************************************************)
(* The ontology the constructor loads (hp.obo through obonet and phenopy). *)
(* A toy cut of HPO: the root of the phenotype branch, the five excluded   *)
(* roots of filter_hpo_df, terms below and beside them, and one term of    *)
(* the inheritance branch, which only the full obo graph holds.            *)
(***************************************************************************)
full_hpo_graph_nodes ==
    << "HP:0000007", "HP:0000118", "HP:0001250", "HP:0000708", "HP:0000729",
       "HP:0000733", "HP:0000271", "HP:0011297", "HP:0031703", "HP:0012372",
       "HP:0000316" >>

node_data ==
    [n \in Range(full_hpo_graph_nodes) |->
        CASE n = "HP:0000007" -> [name |-> "Autosomal recessive inheritance", alt_id |-> <<>>, synonyms |-> <<>>]
          [] n = "HP:0000118" -> [name |-> "Phenotypic abnormality", alt_id |-> <<>>, synonyms |-> <<>>]
          [] n = "HP:0001250" -> [name |-> "Seizure", alt_id |-> <<"HP:0002279">>, synonyms |-> <<"Epileptic seizure">>]
          [] n = "HP:0000708" -> [name |-> "Behavioral abnormality", alt_id |-> <<"HP:0002368">>, synonyms |-> <<>>]
          [] n = "HP:0000729" -> [name |-> "Autistic behavior", alt_id |-> <<>>, synonyms |-> <<>>]
          [] n = "HP:0000733" -> [name |-> "Motor stereotypy", alt_id |-> <<>>, synonyms |-> <<>>]
          [] n = "HP:0000271" -> [name |-> "Abnormality of the face", alt_id |-> <<>>, synonyms |-> <<>>]
          [] n = "HP:0011297" -> [name |-> "Abnormal digit morphology", alt_id |-> <<>>, synonyms |-> <<>>]
          [] n = "HP:0031703" -> [name |-> "Abnormal ear morphology", alt_id |-> <<>>, synonyms |-> <<>>]
          [] n = "HP:0012372" -> [name |-> "Abnormal eye morphology", alt_id |-> <<>>, synonyms |-> <<>>]
          [] n = "HP:0000316" -> [name |-> "Hypertelorism", alt_id |-> <<"HP:0004657">>, synonyms |-> <<>>]]

\* is-a edges of the obo file, child -> parent
is_a ==
    { <<"HP:0001250", "HP:0000118">>, <<"HP:0000708", "HP:0000118">>,
      <<"HP:0000729", "HP:0000708">>, <<"HP:0000733", "HP:0000729">>,
      <<"HP:0000733", "HP:0001250">>,
      <<"HP:0000271", "HP:0000118">>, <<"HP:0011297", "HP:0000118">>,
      <<"HP:0031703", "HP:0000118">>, <<"HP:0012372", "HP:0000118">>,
      <<"HP:0000316", "HP:0000271">>, <<"HP:0000316", "HP:0012372">> }

\* generate_annotated_hpo_network keeps the phenotype branch only
generate_annotated_hpo_network ==
    [nodes |-> SelectSeq(full_hpo_graph_nodes, LAMBDA n : n # "HP:0000007"),
     data  |-> [n \in Range(full_hpo_graph_nodes) \ {"HP:0000007"} |-> node_data[n]],
     edges |-> is_a]

\* DiGraph.reverse(): a copy with every edge turned round (parent -> child)
reverse(g) == [g EXCEPT !.edges = {<<e[2], e[1]>> : e \in g.edges}]

\* 'HP' in term, for the strings of this model
HasHP(term) ==
    term \in Range(full_hpo_graph_nodes) \cup {"HP:0002279", "HP:0002368", "HP:0004657"}


(***************************************************************************)
(* networkx: ancestors and descendants of a node of a directed graph.      *)
(***************************************************************************)
RECURSIVE ReachFrom(_, _)
ReachFrom(E, S) ==
    LET S2 == S \cup {e[2] : e \in {x \in E : x[1] \in S}}
    IN  IF S2 = S THEN S ELSE ReachFrom(E, S2)

\* nx.descendants(g, n): every node reachable from n
descendants(g, n) == ReachFrom(g.edges, {n}) \ {n}

\* nx.ancestors(g, n): every node n is reachable from
ancestors(g, n) == ReachFrom({<<e[2], e[1]>> : e \in g.edges}, {n}) \ {n}

(***************************************************************************)
(* _init_calc_similarity: the alias index.                                 *)
(***************************************************************************)
EmptyDict == [x \in {} |-> ""]

\* name_to_id = {data.get('name'): id_ for id_, data in full_hpo_graph.nodes(data=True)}
RECURSIVE name_to_id(_)
name_to_id(i) ==
    IF i = 0 THEN EmptyDict
    ELSE DictSet(name_to_id(i - 1), node_data[full_hpo_graph_nodes[i]].name, full_hpo_graph_nodes[i])

\* temp_dict = {v: k for k, v in name_to_id.items()}
temp_dict(d) == [v \in Range(d) |-> CHOOSE k \in DOMAIN d : d[k] = v]

\* {**a, **b}
DictMerge(a, b) == [x \in (DOMAIN a) \cup (DOMAIN b) |-> IF x \in DOMAIN b THEN b[x] ELSE a[x]]

\* for k in keys: d[k] = v
RECURSIVE SetAll(_, _, _)
SetAll(d, keys, v) ==
    IF keys = <<>> THEN d ELSE SetAll(DictSet(d, Head(keys), v), Tail(keys), v)

\* name_to_id_and_reverse[alt] = data['name'] (the alternate ID maps to the NAME)
alt_id_entry(id_, data) == data.name

\* the loop of lines 131-137 over the first i nodes of the full graph
RECURSIVE add_aliases(_, _)
add_aliases(d, i) ==
    IF i = 0 THEN d
    ELSE LET id_  == full_hpo_graph_nodes[i]
             data == node_data[id_]
             d1   == add_aliases(d, i - 1)
             d2   == SetAll(d1, data.synonyms, id_)
         IN  SetAll(d2, data.alt_id, alt_id_entry(id_, data))

init_name_to_id_and_reverse ==
    LET n2i == name_to_id(Len(full_hpo_graph_nodes))
    IN  add_aliases(DictMerge(n2i, temp_dict(n2i)), Len(full_hpo_graph_nodes))

(***************************************************************************)
(* The pairwise term scorer (phenopy's Scorer.score_hpo_pair_hrss): an     *)
(* external function of two terms.  Three scorers stand for it: the stub   *)
(* of the specification's example, Resnik (information content of the most *)
(* informative common ancestor) and one that is not symmetric.             *)
(***************************************************************************)
ScoringMethods == {"stub", "Resnik", "first_ic"}
SymmetricMethods == {"stub", "Resnik"}

\* information content of a term, precomputed by phenopy
ic(n) ==
    CASE n = "HP:0000118" -> 0
      [] n \in {"HP:0000708", "HP:0000271", "HP:0011297", "HP:0031703", "HP:0012372"} -> 1
      [] n \in {"HP:0001250", "HP:0000729", "HP:0000316"} -> 2
      [] n = "HP:0000733" -> 3
      [] OTHER -> 0

SetMax(S) == IF S = {} THEN 0 ELSE CHOOSE m \in S : \A x \in S : x <= m

common_ancestors(a, b) ==
    (ancestors(hpo_network, a) \cup {a}) \cap (ancestors(hpo_network, b) \cup {b})
        \cap Range(hpo_network.nodes)

score_hpo_pair_hrss(term_a, term_b) ==
    CASE scorer = "stub" ->
            IF term_a = term_b THEN 2
            ELSE IF common_ancestors(term_a, term_b) # {} THEN 1 ELSE 0
      [] scorer = "Resnik" -> SetMax({ic(c) : c \in common_ancestors(term_a, term_b)})
      [] scorer = "first_ic" ->
            IF common_ancestors(term_a, term_b) # {} THEN ic(term_a) ELSE 0

(***************************************************************************)
(* calc_similarity                                                         *)
(***************************************************************************)
Max(x, y) == IF x >= y THEN x ELSE y

\* the condition of the comprehensions of lines 164-165: term in hpo_nodes
in_hpo_nodes(term) == term \in Range(hpo_network.nodes)

\* the expression of the comprehensions: term if 'HP' in term else name_to_id_and_reverse[term]
KeyError(term) == ~HasHP(term) /\ term \notin DOMAIN name_to_id_and_reverse
resolve(term) == IF HasHP(term) THEN term ELSE name_to_id_and_reverse[term]

\* [resolve(term) for term in terms if term in hpo_nodes]
terms_proc(terms) ==
    LET kept == SelectSeq(terms, in_hpo_nodes)
    IN  IF \E i \in DOMAIN kept : KeyError(kept[i])
        THEN [raised |-> "KeyError", value |-> <<>>]
        ELSE [raised |-> "", value |-> [i \in DOMAIN kept |-> resolve(kept[i])]]

\* mutant: the score of the last term replaces the running maximum
inner_max1_last(term_a, terms_b, j) ==
    IF j = 0 THEN 0 ELSE score_hpo_pair_hrss(term_a, terms_b[j])

\* the inner loop of lines 171-173 over the first j terms of terms_b
RECURSIVE inner_max1(_, _, _)
inner_max1(term_a, terms_b, j) ==
    IF j = 0 THEN 0
    ELSE Max(inner_max1(term_a, terms_b, j - 1), score_hpo_pair_hrss(term_a, terms_b[j]))

\* mutant: the second pass hands the scorer its arguments the other way round
RECURSIVE inner_max0_swapped(_, _, _)
inner_max0_swapped(term_b, terms_a, j) ==
    IF j = 0 THEN 0
    ELSE Max(inner_max0_swapped(term_b, terms_a, j - 1), score_hpo_pair_hrss(term_b, terms_a[j]))

\* the inner loop of lines 178-180 over the first j terms of terms_a
RECURSIVE inner_max0(_, _, _)
inner_max0(term_b, terms_a, j) ==
    IF j = 0 THEN 0
    ELSE Max(inner_max0(term_b, terms_a, j - 1), score_hpo_pair_hrss(terms_a[j], term_b))

max1(a, b) == [i \in DOMAIN a |-> inner_max1(a[i], b, Len(b))]
max0(a, b) == [i \in DOMAIN b |-> inner_max0(b[i], a, Len(a))]

\* np.average of a 1-d array: NaN (with a warning) when it is empty
np_average(s) == IF Len(s) = 0 THEN NaN ELSE Frac(SumSeq(s), Len(s))

\* mutant: the NaN of an empty mean is returned as it is
nan_kept(average) == average

\* 0 if np.isnan(average) else average
nan_to_zero(average) == IF average.nan THEN Zero ELSE average

\* mutant: only the first best-match vector is averaged
bma_one_sided(a, b) == np_average(max1(a, b))

\* average = np.average(np.append(max1, max0))
bma(a, b) == np_average(max1(a, b) \o max0(a, b))

calc_similarity(terms_a, terms_b) ==
    LET a == terms_proc(terms_a)
        b == terms_proc(terms_b)
    IN  IF a.raised # "" THEN [raised |-> a.raised, value |-> Zero]
        ELSE IF b.raised # "" THEN [raised |-> b.raised, value |-> Zero]
        ELSE [raised |-> "", value |-> nan_to_zero(bma(a.value, b.value))]

(***************************************************************************)
(* get_graph                                                               *)
(***************************************************************************)
SetMin(S) == CHOOSE m \in S : \A x \in S : m <= x

\* lines 66-71: a term that is no node becomes the first node (in node
\* order) whose alt_id list holds it; it stays as it is when there is none
alt_id_scan(g, hpo) ==
    IF hpo \in Range(g.nodes) THEN hpo
    ELSE LET hits == {i \in DOMAIN g.nodes : hpo \in Range(g.data[g.nodes[i]].alt_id)}
         IN  IF hits = {} THEN hpo ELSE g.nodes[SetMin(hits)]

\* mutant: the term itself is not appended to its ancestors
parent_nodes_without_term(g, hpo) == ancestors(g, hpo)

\* lines 74-75: parent_nodes = list(nx.ancestors(g, hpo)); parent_nodes.append(hpo)
parent_nodes(g, hpo) == ancestors(g, hpo) \cup {hpo}

\* lines 64-77: the counter present_in_patient of every node after the
\* first k terms of hpo_terms
RECURSIVE present_in_patient(_, _, _)
present_in_patient(g, hpo_terms, k) ==
    IF k = 0 THEN [n \in Range(g.nodes) |-> 0]
    ELSE LET before == present_in_patient(g, hpo_terms, k - 1)
             hpo    == alt_id_scan(g, hpo_terms[k])
         IN  IF hpo \notin Range(g.nodes) THEN before
             ELSE [n \in Range(g.nodes) |->
                     IF n \in parent_nodes(g, hpo) THEN before[n] + 1 ELSE before[n]]

\* lines 85-89: the name of every node left, under its ID and its alternate
\* IDs, after the first i nodes of the second loop
RECURSIVE id_to_name_with_alt_ids(_, _)
id_to_name_with_alt_ids(g, i) ==
    IF i = 0 THEN [n \in Range(g.nodes) |-> g.data[n].name]
    ELSE LET data == g.data[g.nodes[i]]
         IN  SetAll(id_to_name_with_alt_ids(g, i - 1), data.alt_id, data.name)

\* nx.relabel_nodes(g, mapping): a copy with every node renamed
relabel_nodes(g, mapping) ==
    [nodes |-> [i \in DOMAIN g.nodes |-> mapping[g.nodes[i]]],
     data  |-> [m \in {mapping[n] : n \in Range(g.nodes)} |->
                  g.data[CHOOSE n \in Range(g.nodes) : mapping[n] = m]],
     edges |-> {<<mapping[e[1]], mapping[e[2]]>> : e \in g.edges}]

\* the graph get_graph returns; it works on a deep copy of self.hpo_network
get_graph(hpo_terms, hpo_id_as_label) ==
    LET g       == hpo_network
        present == present_in_patient(g, hpo_terms, Len(hpo_terms))
        keep(n) == present[n] # 0
        local   == [nodes |-> SelectSeq(g.nodes, keep),
                    data  |-> [n \in {m \in Range(g.nodes) : keep(m)} |->
                                 [name |-> g.data[n].name, alt_id |-> g.data[n].alt_id,
                                  synonyms |-> g.data[n].synonyms,
                                  present_in_patient |-> present[n]]],
                    edges |-> {e \in g.edges : keep(e[1]) /\ keep(e[2])}]
        id_to_name == id_to_name_with_alt_ids(local, Len(local.nodes))
    IN  IF hpo_id_as_label THEN local ELSE relabel_nodes(local, id_to_name)

(***************************************************************************)
(* filter_hpo_df                                                           *)
(***************************************************************************)
parents_to_exclude == <<"HP:0000708", "HP:0000271", "HP:0011297", "HP:0031703", "HP:0012372">>

\* mutant: the alternate ID is mapped to the node's ID
alt_id_entry_as_id(name, id_) == id_

\* line 277: self.name_to_id_and_reverse[alt] = temp_df.loc[i, 1]['name']
alt_id_rewrite(name, id_) == name

\* lines 273-277 over the first i nodes of self.hpo_network
RECURSIVE refresh_alt_ids(_, _)
refresh_alt_ids(d, i) ==
    IF i = 0 THEN d
    ELSE LET id_  == hpo_network.nodes[i]
             data == hpo_network.data[id_]
         IN  SetAll(refresh_alt_ids(d, i - 1), data.alt_id, alt_id_rewrite(data.name, id_))

\* mutant: only the direct children of an excluded root are excluded
children_only(g, hpo) == {e[2] : e \in {x \in g.edges : x[1] = hpo}}

\* line 282: nx.algorithms.dag.descendants(self.hpo_network, hpo)
excluded_below(g, hpo) == descendants(g, hpo)

\* lines 279-284: every excluded root and every node below one
exclude ==
    UNION {excluded_below(hpo_network, parents_to_exclude[k]) \cup {parents_to_exclude[k]}
             : k \in DOMAIN parents_to_exclude}

\* [i for i in L if i not in exclude]
not_excluded(i) == i \notin exclude
keep_terms(L) == SelectSeq(L, not_excluded)

\* the lists that list(a_set) can be: the elements in any order
Orderings(S) == {s \in [1..Cardinality(S) -> S] : Range(s) = S}

\* The values filter_hpo_df can return for df = [shape, body]:
\*   "list"      a Python list of terms (body: the terms)
\*   "tuples"    a Python list of tuples of terms (body: the tuples); no
\*               tuple equals a term of exclude, so none is taken away
\*   "ndarray"   an array whose last column holds term lists (body: that column)
\*   "DataFrame" a table with a column hpo_all (body: that column)
\*   "Series"    one record with a field hpo_all (body: its term list)
filter_hpo_df(df) ==
    CASE df.shape = "list" ->
            {[shape |-> "list", body |-> o] : o \in Orderings(Range(df.body) \ exclude)}
      [] df.shape = "tuples" ->
            {[shape |-> "list", body |-> o] : o \in Orderings(Range(df.body))}
      [] df.shape = "ndarray" ->
            {[shape |-> "ndarray", body |-> [r \in DOMAIN df.body |-> keep_terms(df.body[r])]]}
      [] df.shape = "DataFrame" ->
            {[shape |-> "DataFrame", body |-> [r \in DOMAIN df.body |-> keep_terms(df.body[r])]]}
      [] df.shape = "Series" ->
            {[shape |-> "DataFrame", body |-> <<keep_terms(df.body)>>]}

(***************************************************************************)
(* calc_full_sim_mat                                                       *)
(***************************************************************************)
\* list(set(terms)): the terms without repetitions.  The order Python gives
\* them is not fixed; calc_similarity does not depend on it (claim C2), so
\* one order stands for all.
RECURSIVE list_set(_)
list_set(terms) ==
    IF terms = <<>> THEN <<>>
    ELSE LET front == SubSeq(terms, 1, Len(terms) - 1)
             last  == terms[Len(terms)]
         IN  IF last \in Range(front) THEN list_set(front) ELSE Append(list_set(front), last)

\* the classes of the fitted MultiLabelBinarizer, sorted as sklearn keeps them
mlb_classes == <<"HP:0000118", "HP:0000733", "HP:0001250">>

\* one tuple of inverse_transform: the classes a 0/1 row marks, in class order
RECURSIVE compress(_, _)
compress(indicators, k) ==
    IF k = 0 THEN <<>>
    ELSE IF indicators[k] = 1 THEN Append(compress(indicators, k - 1), mlb_classes[k])
    ELSE compress(indicators, k - 1)

\* mlb.inverse_transform(x): a Python list with one tuple per row of x
inverse_transform(rows) == [r \in DOMAIN rows |-> compress(rows[r], Len(mlb_classes))]

\* lines 204-207.  x = [format, rows]: "lists" when the last column of x
\* holds the term lists (rows: that column), "onehot" when x is a 0/1
\* matrix over the classes of mlb (rows: its rows)
hpos_of(x) ==
    IF x.format = "lists" THEN [shape |-> "ndarray", body |-> x.rows]
    ELSE [shape |-> "tuples", body |-> inverse_transform(x.rows)]

\* .flatten() of what filter_hpo_df returned: a list has no such method
flatten(filtered) ==
    IF filtered.shape = "list" THEN [raised |-> "AttributeError", value |-> <<>>]
    ELSE [raised |-> "", value |-> filtered.body]

\* lines 202, 210-212: sim_mat[i, z] for every pair of the n = len(x) individuals
sim_mat_of(hpos, n) ==
    LET cells == [c \in (1..n) \X (1..n) |->
                    calc_similarity(list_set(hpos[c[1]]), list_set(hpos[c[2]]))]
    IN  IF \E c \in DOMAIN cells : cells[c].raised # ""
        THEN [raised |-> "KeyError", value |-> <<>>]
        ELSE [raised |-> "", value |-> [c \in DOMAIN cells |-> cells[c].value]]

\* what calc_full_sim_mat gives when filter_hpo_df returned `filtered`
calc_full_sim_mat(x, filtered) ==
    LET hpos == flatten(filtered)
    IN  IF hpos.raised # "" THEN hpos ELSE sim_mat_of(hpos.value, Len(x.rows))

(***************************************************************************)
(* calc_sim_scores                                                         *)
(***************************************************************************)
\* row[mask]: the entries of a row under a boolean mask (y_train == label)
RECURSIVE masked(_, _, _, _)
masked(row, y_train, label, k) ==
    IF k = 0 THEN <<>>
    ELSE IF y_train[k] = label THEN Append(masked(row, y_train, label, k - 1), row[k])
    ELSE masked(row, y_train, label, k - 1)

\* mutant: the mean is taken over the whole row, the label mask forgotten
masked_mean_of_all(row, y_train, label) == np_average(row)

\* row[y_train == label].mean(): NaN when no label is `label`
masked_mean(row, y_train, label) == np_average(masked(row, y_train, label, Len(row)))

\* sim_mat[:, train_index][rows, :] for an index array rows
block(sim_mat, rows, train_index) ==
    [r \in DOMAIN rows |-> [c \in DOMAIN train_index |-> sim_mat[<<rows[r], train_index[c]>>]]]

\* np.append(sim_avg_pat, sim_avg_control, axis=1) of a 2-d block
two_columns(blk, y_train) ==
    [r \in DOMAIN blk |-> <<masked_mean(blk[r], y_train, 1), masked_mean(blk[r], y_train, 0)>>]

\* test_index = [scalar, idx]: one integer (the block is 1-d, lines 248-249)
\* or an index array (lines 245-246)
calc_sim_scores(sim_mat, train_index, test_index, y_train) ==
    LET sim_mat_train == block(sim_mat, train_index, train_index)
        sim_mat_test  == IF test_index.scalar
                         THEN block(sim_mat, <<test_index.idx>>, train_index)[1]
                         ELSE block(sim_mat, test_index.idx, train_index)
    IN  [train |-> two_columns(sim_mat_train, y_train),
         test  |-> IF test_index.scalar
                   THEN << <<masked_mean(sim_mat_test, y_train, 1),
                             masked_mean(sim_mat_test, y_train, 0)>> >>
                   ELSE two_columns(sim_mat_test, y_train)]

(***************************************************************************)
(* The state machine.                                                      *)
(***************************************************************************)
NoCall == [op |-> "none", args |-> <<>>, out |-> <<>>]

\* tokens handed to calc_similarity: two terms of the network, the name of
\* the first, and a term only the full obo graph holds
SimTokens == {"HP:0001250", "HP:0000708", "Seizure", "HP:0000007"}

Init ==
    /\ hpo_network = reverse(generate_annotated_hpo_network)
    /\ name_to_id_and_reverse = init_name_to_id_and_reverse
    /\ scorer \in ScoringMethods
    /\ pc = "idle"
    /\ call = NoCall

Call_calc_similarity ==
    /\ pc = "idle"
    /\ \E terms_a \in SeqsUpTo(SimTokens, MaxLen) :
       \E terms_b \in SeqsUpTo(SimTokens, MaxLenB) \cup {terms_a} :
          call' = [op |-> "calc_similarity", args |-> <<terms_a, terms_b>>,
                   out |-> calc_similarity(terms_a, terms_b)]
    /\ pc' = "returned"
    /\ UNCHANGED <<hpo_network, name_to_id_and_reverse, scorer>>

\* tokens handed to get_graph: a term with two parents, a term below two
\* excluded roots, an alternate ID, the root, and a term that is no node
GraphTokens == {"HP:0000733", "HP:0000316", "HP:0002279", "HP:0000118", "HP:0000007"}

Call_get_graph ==
    /\ pc = "idle"
    /\ \E hpo_terms \in SeqsUpTo(GraphTokens, MaxLen), hpo_id_as_label \in BOOLEAN :
          call' = [op |-> "get_graph", args |-> <<hpo_terms, hpo_id_as_label>>,
                   out |-> [raised |-> "", value |-> get_graph(hpo_terms, hpo_id_as_label)]]
    /\ pc' = "returned"
    /\ UNCHANGED <<hpo_network, name_to_id_and_reverse, scorer>>

\* tokens of the term lists handed to filter_hpo_df: an excluded root, its
\* alternate ID, a term two levels below it, a term below two excluded
\* roots, a term of the network outside every excluded subtree, and a
\* token that is no term
FilterTokens ==
    {"HP:0000708", "HP:0002368", "HP:0000733", "HP:0000316", "HP:0001250", "unrelated-term"}
\* tokens of the rows of the arrays and tables handed to it: a term two
\* levels below an excluded root and a term outside every excluded subtree
RowTokens == {"HP:0000733", "HP:0001250"}
Rows == SeqsUpTo(RowTokens, MaxCohortLen)
Columns(R) == UNION {[1..n -> R] : n \in 1..MaxCohort}

FilterInputs ==
    {[shape |-> sh, body |-> L] : sh \in {"list", "Series"}, L \in SeqsUpTo(FilterTokens, MaxCohortLen)}
      \cup {[shape |-> sh, body |-> c] : sh \in {"ndarray", "DataFrame"}, c \in Columns(Rows)}

Call_filter_hpo_df ==
    /\ pc = "idle"
    /\ \E df \in FilterInputs :
       \E out \in filter_hpo_df(df) :
          call' = [op |-> "filter_hpo_df", args |-> <<df>>,
                   out |-> [raised |-> "", value |-> out]]
    /\ name_to_id_and_reverse' = refresh_alt_ids(name_to_id_and_reverse, Len(hpo_network.nodes))
    /\ pc' = "returned"
    /\ UNCHANGED <<hpo_network, scorer>>

\* the term lists of the individuals of a cohort: the rows above, and
\* rows with the root of the network, which passes the filter
CohortRows ==
    Rows \cup { <<"HP:0000118">>, <<"HP:0000118", "HP:0001250">>,
                <<"HP:0001250", "HP:0000118", "HP:0001250">> }
\* the rows of a one-hot matrix over the classes of mlb
IndicatorRows == [1..Len(mlb_classes) -> {0, 1}]

full_sim_mat_call(x) ==
    /\ \E filtered \in filter_hpo_df(hpos_of(x)) :
          call' = [op |-> "calc_full_sim_mat", args |-> <<x>>,
                   out |-> calc_full_sim_mat(x, filtered)]
    /\ name_to_id_and_reverse' = refresh_alt_ids(name_to_id_and_reverse, Len(hpo_network.nodes))
    /\ pc' = "returned"
    /\ UNCHANGED <<hpo_network, scorer>>

Call_calc_full_sim_mat ==
    /\ pc = "idle"
    /\ \/ \E c \in Columns(CohortRows) : full_sim_mat_call([format |-> "lists", rows |-> c])
       \/ \E c \in Columns(IndicatorRows) : full_sim_mat_call([format |-> "onehot", rows |-> c])

\* the similarity matrices handed to calc_sim_scores: one with all entries
\* different, one symmetric, one constant
SimMatrices ==
    LET I == (1..MatSize) \X (1..MatSize)
    IN  { [c \in I |-> (c[1] - 1) * MatSize + c[2]],
          [c \in I |-> IF c[1] = c[2] THEN MatSize ELSE c[1] + c[2] - 2],
          [c \in I |-> 1] }

\* index arrays: the indices of a set in every order
IndexArrays(S) == UNION {Orderings(T) : T \in (SUBSET S) \ {{}}}

Call_calc_sim_scores ==
    /\ pc = "idle"
    /\ \E sim_mat \in SimMatrices :
       \E train_index \in IndexArrays(1..MatSize) :
       \E test_index \in {[scalar |-> TRUE, idx |-> i] : i \in (1..MatSize) \ Range(train_index)}
                 \cup {[scalar |-> FALSE, idx |-> a] : a \in IndexArrays((1..MatSize) \ Range(train_index))} :
       \E y_train \in [DOMAIN train_index -> {0, 1}] :
          call' = [op |-> "calc_sim_scores", args |-> <<sim_mat, train_index, test_index, y_train>>,
                   out |-> [raised |-> "",
                            value |-> calc_sim_scores(sim_mat, train_index, test_index, y_train)]]
    /\ pc' = "returned"
    /\ UNCHANGED <<hpo_network, name_to_id_and_reverse, scorer>>

Return ==
    /\ pc = "returned"
    /\ pc' = "idle"
    /\ call' = NoCall
    /\ UNCHANGED <<hpo_network, name_to_id_and_reverse, scorer>>

Next ==
    \/ Call_calc_similarity
    \/ Call_get_graph
    \/ Call_filter_hpo_df
    \/ Call_calc_full_sim_mat
    \/ Call_calc_sim_scores
    \/ Return

Spec == Init /\ [][Next]_vars

\* the same machine with a pairwise scorer that is symmetric, as phenopy's are
InitSymmetric == Init /\ scorer \in SymmetricMethods
SpecSymmetric == InitSymmetric /\ [][Next]_vars


(***************************************************************************)
(* Claims about calc_similarity.                                           *)
(***************************************************************************)
Returned(op) == pc = "returned" /\ call.op = op

TermsA == call.args[1]
TermsB == call.args[2]

\* the terms calc_similarity compares: the tokens that are nodes, resolved
Compared(terms) == Range(terms_proc(terms).value)

\* the scorer gives the same score to (a, b) and (b, a) for the compared terms
ScorerSymmetricOn(A, B) ==
    \A a \in Compared(A), b \in Compared(B) :
        score_hpo_pair_hrss(a, b) = score_hpo_pair_hrss(b, a)

\* the list with its elements i and i+1 exchanged
Swap(s, i) == [k \in DOMAIN s |-> IF k = i THEN s[i + 1] ELSE IF k = i + 1 THEN s[i] ELSE s[k]]

\* the list without the repetitions of its elements
RECURSIVE Dedup(_)
Dedup(s) ==
    IF s = <<>> THEN <<>>
    ELSE LET front == SubSeq(s, 1, Len(s) - 1)
             last  == s[Len(s)]
         IN  IF last \in Range(front) THEN Dedup(front) ELSE Append(Dedup(front), last)

\* C1 (as claimed): calc_similarity(A, B) = calc_similarity(B, A) for every
\* pair of term lists, whatever the pairwise scorer.
C1_SymmetricWhateverScorer ==
    Returned("calc_similarity") => call.out = calc_similarity(TermsB, TermsA)

\* C1 (amended): calc_similarity(A, B) = calc_similarity(B, A) whenever the
\* pairwise scorer gives score(a, b) = score(b, a) for the terms compared.
C1_SymmetricForSymmetricScorer ==
    (Returned("calc_similarity") /\ ScorerSymmetricOn(TermsA, TermsB))
        => call.out = calc_similarity(TermsB, TermsA)

C1_Witness ==
    /\ Returned("calc_similarity")
    /\ scorer = "Resnik"
    /\ TermsA = <<"HP:0001250", "HP:0000708">>
    /\ TermsB = <<"HP:0001250">>
    /\ ScorerSymmetricOn(TermsA, TermsB)
    /\ call.out.value = Frac(4, 3)

\* C2 (as claimed): the result does not change when the elements of A or B
\* are reordered or repeated; calc_similarity(A, A) equals
\* calc_similarity(dedup(A), dedup(A)).
C2_OrderAndDuplicateInvariant ==
    Returned("calc_similarity") =>
        /\ \A i \in 1..(Len(TermsA) - 1) : calc_similarity(Swap(TermsA, i), TermsB) = call.out
        /\ \A j \in 1..(Len(TermsB) - 1) : calc_similarity(TermsA, Swap(TermsB, j)) = call.out
        /\ calc_similarity(Dedup(TermsA), Dedup(TermsB)) = call.out
        /\ calc_similarity(TermsA, TermsA) = calc_similarity(Dedup(TermsA), Dedup(TermsA))

\* C2 (amended): the result does not change when the elements of A or of B
\* are reordered (exchanging two neighbours, which generates every order).
C2_OrderInvariant ==
    Returned("calc_similarity") =>
        /\ \A i \in 1..(Len(TermsA) - 1) : calc_similarity(Swap(TermsA, i), TermsB) = call.out
        /\ \A j \in 1..(Len(TermsB) - 1) : calc_similarity(TermsA, Swap(TermsB, j)) = call.out

C2_Witness ==
    /\ Returned("calc_similarity")
    /\ scorer = "Resnik"
    /\ TermsA = <<"HP:0000708", "HP:0000007", "HP:0001250">>
    /\ TermsB = <<"HP:0001250">>
    /\ Swap(TermsA, 1) # TermsA
    /\ calc_similarity(Swap(TermsA, 2), TermsB) = call.out
    /\ call.out.value = Frac(4, 3)

\* C3: calc_similarity never raises on tokens that are no node of the
\* network, and returns exactly 0 when one or both lists hold no node.
C3_AbsentTokensGiveZero ==
    Returned("calc_similarity") =>
        /\ call.out.raised = ""
        /\ ((\A t \in Range(TermsA) : t \notin Range(hpo_network.nodes))
              \/ (\A t \in Range(TermsB) : t \notin Range(hpo_network.nodes)))
           => call.out.value = Zero

C3_Witness ==
    /\ Returned("calc_similarity")
    /\ TermsA = <<"HP:0000007", "HP:0000007">>
    /\ TermsB = <<>>
    /\ call.out = [raised |-> "", value |-> Zero]

\* what C8 describes: a token that is no ID is resolved through the alias
\* index, and a token is kept when its ID is a node of the network
claimed_resolve(term) ==
    IF HasHP(term) THEN term
    ELSE IF term \in DOMAIN name_to_id_and_reverse THEN name_to_id_and_reverse[term]
    ELSE term
claimed_terms(terms) ==
    SelectSeq([i \in DOMAIN terms |-> claimed_resolve(terms[i])], in_hpo_nodes)

\* C8: a name, synonym or alternate ID is resolved to its canonical ID and
\* scored as that ID when the ID is a node; only tokens with no node after
\* resolution are dropped.
C8_AliasResolvedThenScored ==
    Returned("calc_similarity") =>
        call.out.value = nan_to_zero(bma(claimed_terms(TermsA), claimed_terms(TermsB)))

\* the best match of term x in the list ys, 0 when ys is empty
BestAB(a, B) == SetMax({score_hpo_pair_hrss(a, b) : b \in Range(B)})
BestBA(b, A) == SetMax({score_hpo_pair_hrss(a, b) : a \in Range(A)})

\* a similarity counted in units of 0.5, as a number
InUnits(x) == Frac(x.num, 2 * x.den)

\* C9: for lists of node IDs, calc_similarity(A, B) is the mean of
\* [max_b score(a, b) : a in A] followed by [max_a score(a, b) : b in B];
\* with the stub scorer similarity({C1}, {C2}) = 0.5 and
\* similarity({C1}, {C1}) = 1.0 for two children C1, C2 of the root.
C9_BestMatchAverage ==
    (/\ Returned("calc_similarity")
     /\ Range(TermsA) \cup Range(TermsB) \subseteq Range(hpo_network.nodes)
     /\ Len(TermsA) + Len(TermsB) > 0)
    => /\ call.out.value =
            Frac(SumSeq([i \in DOMAIN TermsA |-> BestAB(TermsA[i], TermsB)])
                   + SumSeq([j \in DOMAIN TermsB |-> BestBA(TermsB[j], TermsA)]),
                 Len(TermsA) + Len(TermsB))
       /\ (scorer = "stub" /\ TermsA = <<"HP:0001250">> /\ TermsB = <<"HP:0000708">>)
            => InUnits(call.out.value) = Frac(1, 2)
       /\ (scorer = "stub" /\ TermsA = <<"HP:0001250">> /\ TermsB = <<"HP:0001250">>)
            => InUnits(call.out.value) = Frac(1, 1)

C9_Witness ==
    /\ Returned("calc_similarity")
    /\ scorer = "stub"
    /\ TermsA = <<"HP:0001250">>
    /\ TermsB = <<"HP:0000708">>
    /\ InUnits(call.out.value) = Frac(1, 2)


(***************************************************************************)
(* Claims about filter_hpo_df and get_graph.                               *)
(***************************************************************************)
Nodes == Range(hpo_network.nodes)

\* the terms C4 wants gone: an excluded root, or a term with one among its ancestors
ExcludedTerms ==
    {t \in Nodes : \E k \in DOMAIN parents_to_exclude :
        t = parents_to_exclude[k] \/ parents_to_exclude[k] \in ancestors(hpo_network, t)}

Allowed(t) == t \notin ExcludedTerms

StandsFor(S) ==
    (Range(S) \cap Nodes)
      \cup {n \in Nodes : \E t \in Range(S) \ Nodes : t \in Range(hpo_network.data[n].alt_id)}

C6_SquareSymmetricMatrix ==
    Returned("calc_full_sim_mat") =>
        LET n == Len(call.args[1].rows)
            M == call.out.value
        IN  /\ call.out.raised = ""
            /\ DOMAIN M = (1..n) \X (1..n)
            /\ \A i, z \in 1..n : M[<<i, z>>] = M[<<z, i>>]

SimMat == call.args[1]
TrainIndex == call.args[2]
TestIndex == call.args[3]
YTrain == call.args[4]
TestRows == IF TestIndex.scalar THEN <<TestIndex.idx>> ELSE TestIndex.idx

RECURSIVE SumOver(_, _)
SumOver(f, S) ==
    IF S = {} THEN 0 ELSE LET x == CHOOSE x \in S : TRUE IN f[x] + SumOver(f, S \ {x})

\* the mean similarity of individual `ind` to the training individuals labelled `label`
MeanTo(ind, label) ==
    LET cols == {c \in DOMAIN TrainIndex : YTrain[c] = label}
    IN  IF cols = {} THEN NaN
        ELSE Frac(SumOver([c \in cols |-> SimMat[<<ind, TrainIndex[c]>>]], cols), Cardinality(cols))

InMatrixRange(v) ==
    /\ ~v.nan
    /\ \E c \in DOMAIN SimMat : FracLeq(Frac(SimMat[c], 1), v)
    /\ \E c \in DOMAIN SimMat : FracLeq(v, Frac(SimMat[c], 1))

TablesAsClaimed ==
    LET out == call.out.value
    IN  /\ call.out.raised = ""
        /\ Len(out.train) = Len(TrainIndex)
        /\ Len(out.test) = Len(TestRows)
        /\ \A r \in DOMAIN out.train :
              /\ Len(out.train[r]) = 2
              /\ InMatrixRange(out.train[r][1]) /\ InMatrixRange(out.train[r][2])
              /\ out.train[r] = <<MeanTo(TrainIndex[r], 1), MeanTo(TrainIndex[r], 0)>>
        /\ \A r \in DOMAIN out.test :
              /\ Len(out.test[r]) = 2
              /\ InMatrixRange(out.test[r][1]) /\ InMatrixRange(out.test[r][2])
              /\ out.test[r] = <<MeanTo(TestRows[r], 1), MeanTo(TestRows[r], 0)>>

C10_SharedStateUnchanged ==
    [][hpo_network' = hpo_network /\ name_to_id_and_reverse' = name_to_id_and_reverse]_vars

C10_Witness ==
    /\ Returned("filter_hpo_df")
    /\ call.args[1].shape = "DataFrame"
    /\ name_to_id_and_reverse["HP:0002279"] = "Seizure"
    /\ hpo_network = reverse(generate_annotated_hpo_network)

====
